---- MODULE Spec2Model ----
(***************************************************************************)
(* es-credentials.py: one-shot provisioning of a bucket, an IAM policy, a  *)
(* user and an access key.  A run of main() is a process whose steps are   *)
(* the provider calls it makes, each taken together with the local code    *)
(* that follows it up to the next provider call.  The provider (S3, IAM,   *)
(* STS) is the shared state.  Delivery of SIGINT (line 39) is not          *)
(* modelled.                                                               *)
(*                                                                         *)
(* Text is a sequence of chunks: the chunks "'" and "\"" are the two quote *)
(* characters, a bracket, a brace, ", " and ": " are chunks of their own,  *)
(* and every other chunk is a run of characters holding none of these.     *)
(***************************************************************************)
EXTENDS Integers, Sequences, FiniteSets, TLC

(* Python None; no string of the model is the empty text *)
None == << >>

(* ---------------------------------------------------------------- text *)

SQ == "'"
DQ == "\""

RECURSIVE Flatten(_)
Flatten(ss) == IF ss = << >> THEN << >> ELSE Head(ss) \o Flatten(Tail(ss))

RECURSIVE Join(_, _)
Join(ss, sep) ==
    IF ss = << >> THEN << >>
    ELSE IF Len(ss) = 1 THEN Head(ss)
    ELSE Head(ss) \o sep \o Join(Tail(ss), sep)

Has(s, c) == \E i \in 1..Len(s) : s[i] = c

(* str.replace(old, new) for a one-character old *)
Replace(s, old, new) == [i \in 1..Len(s) |-> IF s[i] = old THEN new ELSE s[i]]

(* "prefix{}suffix".format(x) *)
Chunk(c) == IF c = "" THEN << >> ELSE <<c>>
Format(prefix, x, suffix) == Chunk(prefix) \o x \o Chunk(suffix)

EscapeWith(s, q) ==
    Flatten([i \in 1..Len(s) |-> IF s[i] = q THEN <<"\\", q>> ELSE <<s[i]>>])

(* repr() of a Python str: single quotes, unless the text holds a single   *)
(* quote and no double quote                                               *)
PyRepr(s) ==
    IF Has(s, SQ) /\ ~Has(s, DQ)
    THEN <<DQ>> \o s \o <<DQ>>
    ELSE <<SQ>> \o EscapeWith(s, SQ) \o <<SQ>>

PyReprList(l) ==
    <<"[">> \o Join([i \in 1..Len(l) |-> PyRepr(l[i])], <<", ">>) \o <<"]">>

PyItem(k, v) == PyRepr(<<k>>) \o <<": ">> \o v

(* str() of a policy document: a dict of Version and Statement, the first  *)
(* statement with a string Action and Resource, the second with lists      *)
PyStr(d) ==
    LET st1 == d.Statement[1]
        st2 == d.Statement[2]
        s1  == <<"{">> \o Join(<< PyItem("Sid", PyRepr(st1.Sid)),
                                  PyItem("Effect", PyRepr(st1.Effect)),
                                  PyItem("Action", PyRepr(st1.Action)),
                                  PyItem("Resource", PyRepr(st1.Resource)) >>,
                               <<", ">>) \o <<"}">>
        s2  == <<"{">> \o Join(<< PyItem("Sid", PyRepr(st2.Sid)),
                                  PyItem("Effect", PyRepr(st2.Effect)),
                                  PyItem("Action", PyReprList(st2.Action)),
                                  PyItem("Resource", PyReprList(st2.Resource)) >>,
                               <<", ">>) \o <<"}">>
    IN  <<"{">> \o PyItem("Version", PyRepr(d.Version)) \o <<", ">>
               \o PyItem("Statement", <<"[">> \o s1 \o <<", ">> \o s2 \o <<"]">>)
               \o <<"}">>

(* ------------------------------------------------------ policy templates *)

ReadActions  == << <<"s3:GetObject">>, <<"s3:GetObjectAcl">>, <<"s3:GetObjectTagging">> >>
WriteActions == << <<"s3:PutObject">>, <<"s3:PutObjectAcl">>, <<"s3:PutObjectTagging">> >>

Template(actions) ==
    [ Version   |-> <<"2012-10-17">>,
      Statement |-> << [ Sid      |-> <<"VisualEditor0">>,
                         Effect   |-> <<"Allow">>,
                         Action   |-> <<"s3:ListAllMyBuckets">>,
                         Resource |-> <<"*">> ],
                       [ Sid      |-> <<"VisualEditor1">>,
                         Effect   |-> <<"Allow">>,
                         Action   |-> << <<"s3:ListBucket">> >> \o actions,
                         Resource |-> << >> ] >> ]

iam_policies ==
    [ m \in { <<"r">>, <<"w">>, <<"rw">> } |->
        IF m = <<"r">> THEN Template(ReadActions)
        ELSE IF m = <<"w">> THEN Template(WriteActions)
        ELSE Template(ReadActions \o WriteActions) ]


Modes == DOMAIN iam_policies

(* variant: the two ARNs are added to what the entry already holds *)
SetResource_Append(iam_policy, bucket) ==
    [iam_policy EXCEPT !.Statement[2].Resource =
        @ \o << Format("arn:aws:s3:::", bucket, "/*"),
                Format("arn:aws:s3:::", bucket, "") >>]

(* iam_policy["Statement"][1]["Resource"] = [".../*", "..."] : the entry   *)
(* is assigned, not appended to                                            *)
SetResource(iam_policy, bucket) ==
    [iam_policy EXCEPT !.Statement[2].Resource =
        << Format("arn:aws:s3:::", bucket, "/*"),
           Format("arn:aws:s3:::", bucket, "") >>]

(* variant: the text of str() is sent as it is *)
PolicyDocument_NoReplace(iam_policy) == PyStr(iam_policy)

(* str(iam_policy).replace("'", '"') *)
PolicyDocument(iam_policy) == Replace(PyStr(iam_policy), SQ, DQ)

(* --------------------------------------------------------------- bounds *)

NumRuns   == 2      \* invocations of the script, one after the other
MaxFaults == 1      \* provider failures and non-200 responses in one behaviour
MaxCalls  == 2      \* further calls of confirm_or_create_policy in one process
PageSize  == 2      \* items on the first page of list_policies (the provider's is 100)
MaxOther  == PageSize   \* policies of other names present at the start

(* process slots: two, for the two overlapping invocations *)
Runs == {1, 2}

(* Names that pass the client library's bucket-name validation: letters,   *)
(* digits, dot, hyphen, underscore.                                        *)
BucketNames == { <<"acme-ev-01">>, <<"acme-ev-02">> }
PolicyNames == { <<"acme-ev-01-read">> }
UserNames   == { <<"svc-read">> }
AccessArgs  == { <<"r">>, <<"w">>, <<"rw">>, <<"x">>, None }

aws_region == "us-east-1"

(* outcomes of a provider call *)
ClientErrorCodes == { "404", "EntityAlreadyExists", "NoSuchEntity", "AccessDenied" }
OtherExceptions  == { "ConnectionError" }
IsClientError(o) == o \in ClientErrorCodes
IsException(o)   == o \in ClientErrorCodes \cup OtherExceptions
OkStatus == { "200", "204" }     \* HTTPStatusCode of a response

VARIABLES
    buckets,     \* S3: names of the buckets that exist
    protected,   \* S3: names of the buckets with a public access block
    policies,    \* IAM: sequence of [PolicyName, Arn, Document], in listing order
    users,       \* IAM: names of the users that exist
    attached,    \* IAM: set of <<UserName, PolicyArn>>
    keys,        \* IAM: sequence of [UserName, AccessKeyId]
    faults,      \* number of injected provider failures
    pc,          \* per run: position in main()
    args,        \* per run: parsed arguments
    arn,         \* per run: value of arn in confirm_or_create_policy / main
    iam,         \* per run (process): the global iam_policies mapping
    calls,       \* per run: provider calls made, [op, req, res]
    stderr,      \* per run: messages written to sys.stderr
    stdout,      \* per run: lines printed
    quota,       \* invocations the operator still makes
    launched,    \* history: invocations made so far
    same,        \* history: all invocations so far had the same arguments
    clean,       \* history: all terminated invocations were failure-free
    recalls      \* further calls of confirm_or_create_policy made

provider == <<buckets, protected, policies, users, attached, keys>>
history == <<quota, launched, same, clean, recalls>>
vars == <<buckets, protected, policies, users, attached, keys, faults,
          pc, args, arn, iam, calls, stderr, stdout,
          quota, launched, same, clean, recalls>>

Min(a, b) == IF a < b THEN a ELSE b

PolicyArn(name) == Format("arn:aws:iam::123456789012:policy/", name, "")

OtherPolicy(i) ==
    [ PolicyName |-> <<"other-", i>>, Arn |-> PolicyArn(<<"other-", i>>), Document |-> << >> ]

NoArgs == [bucket |-> None, policy |-> None, access |-> None, user |-> None]

(* nothing provisioned yet; q invocations to come, f failures used up *)
InitWith(q, f) ==
    /\ buckets = {}
    /\ protected = {}
    /\ \E n \in 0..MaxOther : policies = [i \in 1..n |-> OtherPolicy(i)]
    /\ users = {}
    /\ attached = {}
    /\ keys = << >>
    /\ faults = f
    /\ pc = [r \in Runs |-> "idle"]
    /\ args = [r \in Runs |-> NoArgs]
    /\ arn = [r \in Runs |-> None]
    /\ iam = [r \in Runs |-> iam_policies]
    /\ calls = [r \in Runs |-> << >>]
    /\ stderr = [r \in Runs |-> << >>]
    /\ stdout = [r \in Runs |-> << >>]
    /\ quota = q
    /\ launched = 0
    /\ same = TRUE
    /\ clean = TRUE
    /\ recalls = 0

Init == InitWith(NumRuns, 0)

(* ------------------------------------------------------------- plumbing *)

Goto(r, l)      == pc' = [pc EXCEPT ![r] = l]
Write(r, msgs)  == stderr' = [stderr EXCEPT ![r] = @ \o msgs]
Called(r, op, req, res, data) ==
    calls' = [calls EXCEPT ![r] =
                 Append(@, [op |-> op, req |-> req, res |-> res, data |-> data])]

(* the provider call fails although the request is acceptable *)
Fault == /\ faults < MaxFaults
         /\ faults' = faults + 1
NoFault == faults' = faults

(* "{}\n".format(e): the text of an exception names the operation *)
ExcMsg(op, o) == <<"exception", op, o>>

(* ---------------------------------------------------------------- main *)

(* a run that reported nothing but its identity and reached the end *)
FailureFree(r) == pc[r] = "done" /\ stderr[r] = << <<"Using account">> >>

Terminated(r) == pc[r] \in {"done", "raised"}

(* init_argparse / parse_args: a new process starts with its arguments, in *)
(* a slot that is free or whose process has terminated                     *)
parse_args(r) ==
    /\ pc[r] = "idle" \/ Terminated(r)
    /\ \A q \in Runs : q < r => pc[q] # "idle"
    /\ quota > 0
    /\ quota' = quota - 1
    /\ launched' = launched + 1
    /\ \E b \in BucketNames, p \in PolicyNames, a \in AccessArgs, u \in UserNames :
          LET new == [bucket |-> b, policy |-> p, access |-> a, user |-> u]
          IN  /\ args' = [args EXCEPT ![r] = new]
              /\ same' = (same /\ (Terminated(r) => args[r] = new))
    /\ clean' = (clean /\ (Terminated(r) => FailureFree(r)))
    /\ Goto(r, "identity")
    /\ arn' = [arn EXCEPT ![r] = None]
    /\ iam' = [iam EXCEPT ![r] = iam_policies]
    /\ calls' = [calls EXCEPT ![r] = << >>]
    /\ stderr' = [stderr EXCEPT ![r] = << >>]
    /\ stdout' = [stdout EXCEPT ![r] = << >>]
    /\ UNCHANGED <<provider, faults, recalls>>

(* sts.get_caller_identity(), outside any try *)
get_caller_identity(r) ==
    /\ pc[r] = "identity"
    /\ \E o \in {"ok", "AccessDenied", "ConnectionError"} :
          /\ IF o = "ok" THEN NoFault ELSE Fault
          /\ Called(r, "get_caller_identity", << >>, o, << >>)
          /\ IF o = "ok"
             THEN Goto(r, "head_bucket") /\ Write(r, << <<"Using account">> >>)
             ELSE Goto(r, "raised") /\ Write(r, << >>)
    /\ UNCHANGED <<provider, args, arn, iam, stdout, history>>

(* variant: the bucket is created whatever head_bucket answered *)
HeadBucketHandler_AlwaysCreate(o) ==
    IF o = "ok" \/ IsClientError(o) THEN [next |-> "create_bucket", msgs |-> << >>]
    ELSE [next |-> "raised", msgs |-> << >>]

(* variant: the public access block is applied again to a bucket found *)
HeadBucketHandler_ProtectAgain(o) ==
    IF o = "ok" THEN [next |-> "put_public_access_block", msgs |-> << >>]
    ELSE IF IsClientError(o)
         THEN IF o = "404" THEN [next |-> "create_bucket", msgs |-> << >>]
              ELSE [next |-> "list_policies", msgs |-> <<ExcMsg("head_bucket", o)>>]
         ELSE [next |-> "raised", msgs |-> << >>]

(* what confirm_or_create_bucket does with the outcome of head_bucket *)
HeadBucketHandler(o) ==
    IF o = "ok" THEN [next |-> "list_policies", msgs |-> << >>]
    ELSE IF IsClientError(o)
         THEN IF o = "404" THEN [next |-> "create_bucket", msgs |-> << >>]
              ELSE [next |-> "list_policies", msgs |-> <<ExcMsg("head_bucket", o)>>]
         ELSE [next |-> "raised", msgs |-> << >>]

head_bucket(r) ==
    /\ pc[r] = "head_bucket"
    /\ \E o \in {"ok", "404", "AccessDenied", "ConnectionError"} :
          /\ o = "ok"  => args[r].bucket \in buckets
          /\ o = "404" => args[r].bucket \notin buckets
          /\ IF o \in {"ok", "404"} THEN NoFault ELSE Fault
          /\ Called(r, "head_bucket", [Bucket |-> args[r].bucket], o, << >>)
          /\ Goto(r, HeadBucketHandler(o).next)
          /\ Write(r, HeadBucketHandler(o).msgs)
    /\ UNCHANGED <<provider, args, arn, iam, stdout, history>>

CreateBucketRequest(region, bucket_name) ==
    [ ACL |-> "private", Bucket |-> bucket_name,
      LocationConstraint |-> IF region = "us-east-1" THEN None ELSE region ]

create_bucket(r) ==
    /\ pc[r] = "create_bucket"
    /\ \E o \in OkStatus \cup {"AccessDenied", "ConnectionError"} :
          /\ IF o = "200" THEN NoFault ELSE Fault
          /\ Called(r, "create_bucket", CreateBucketRequest(aws_region, args[r].bucket), o, << >>)
          /\ IF o \in OkStatus
             THEN /\ buckets' = buckets \cup {args[r].bucket}
                  /\ Write(r, IF o # "200"
                              THEN << <<"response", o>>, <<"Error: bucket creation failed.">> >>
                              ELSE << >>)
                  /\ Goto(r, "put_public_access_block")
             ELSE /\ buckets' = buckets
                  /\ Write(r, <<ExcMsg("create_bucket", o)>>)
                  /\ Goto(r, "list_policies")
    /\ UNCHANGED <<protected, policies, users, attached, keys, args, arn, iam, stdout, history>>

put_public_access_block(r) ==
    /\ pc[r] = "put_public_access_block"
    /\ \E o \in {"ok", "AccessDenied", "ConnectionError"} :
          /\ IF o = "ok" THEN NoFault ELSE Fault
          /\ Called(r, "put_public_access_block", [Bucket |-> args[r].bucket], o, << >>)
          /\ IF o = "ok"
             THEN protected' = protected \cup {args[r].bucket} /\ Write(r, << >>)
             ELSE protected' = protected /\ Write(r, <<ExcMsg("put_public_access_block", o)>>)
          /\ Goto(r, "list_policies")
    /\ UNCHANGED <<buckets, policies, users, attached, keys, args, arn, iam, stdout, history>>

(* list_policies returns the first page only *)
FirstPage(ps) == SubSeq(ps, 1, Min(PageSize, Len(ps)))

(* variant: the search never matches *)
FindArn_NoMatch(page, name, found) == found

(* for policy in response["Policies"]: if name matches: arn = policy["Arn"] *)
RECURSIVE FindArn(_, _, _)
FindArn(page, name, found) ==
    IF page = << >> THEN found
    ELSE FindArn(Tail(page), name,
                 IF Head(page).PolicyName = name THEN Head(page).Arn ELSE found)

PageNames(page) == [i \in 1..Len(page) |-> page[i].PolicyName]

(* variant: a bad --access is not reported *)
AfterList_Silent(found, access) ==
    IF found # None THEN [next |-> "create_user", msgs |-> << >>]
    ELSE IF access \in Modes THEN [next |-> "create_policy", msgs |-> << >>]
    ELSE [next |-> "create_user", msgs |-> << >>]

(* after the search: reuse the ARN found, else create from the template   *)
(* of a known access mode, else report the bad --access                    *)
AfterList(found, access) ==
    IF found # None THEN [next |-> "create_user", msgs |-> << >>]
    ELSE IF access \in Modes THEN [next |-> "create_policy", msgs |-> << >>]
    ELSE [next |-> "create_user",
          msgs |-> << <<"Error: '--access' must be one of r, w, or rw.">> >>]

list_policies(r) ==
    /\ pc[r] = "list_policies"
    /\ \E o \in {"ok", "AccessDenied", "ConnectionError"} :
          /\ IF o = "ok" THEN NoFault ELSE Fault
          /\ IF o = "ok"
             THEN LET page  == FirstPage(policies)
                      found == FindArn(page, args[r].policy, None)
                      then  == AfterList(found, args[r].access)
                  IN  /\ Called(r, "list_policies", [Scope |-> "Local"], o, PageNames(page))
                      /\ arn' = [arn EXCEPT ![r] = found]
                      /\ iam' = IF then.next = "create_policy"
                                THEN [iam EXCEPT ![r][args[r].access] =
                                         SetResource(@, args[r].bucket)]
                                ELSE iam
                      /\ Goto(r, then.next)
                      /\ Write(r, then.msgs)
             ELSE /\ Called(r, "list_policies", [Scope |-> "Local"], o, << >>)
                  /\ Write(r, <<ExcMsg("list_policies", o)>>)
                  /\ Goto(r, "create_user")
                  /\ UNCHANGED <<arn, iam>>
    /\ UNCHANGED <<provider, args, stdout, history>>

PolicyExists(name) == \E i \in 1..Len(policies) : policies[i].PolicyName = name

create_policy(r) ==
    /\ pc[r] = "create_policy"
    /\ LET doc == PolicyDocument(iam[r][args[r].access])
           req == [PolicyName |-> args[r].policy, PolicyDocument |-> doc]
       IN \E o \in OkStatus \cup {"EntityAlreadyExists", "AccessDenied", "ConnectionError"} :
          /\ o \in OkStatus => ~PolicyExists(args[r].policy)
          /\ o = "EntityAlreadyExists" => PolicyExists(args[r].policy)
          /\ IF o \in {"200", "EntityAlreadyExists"} THEN NoFault ELSE Fault
          /\ Called(r, "create_policy", req, o, << >>)
          /\ IF o \in OkStatus
             THEN /\ policies' = Append(policies,
                        [ PolicyName |-> args[r].policy,
                          Arn        |-> PolicyArn(args[r].policy),
                          Document   |-> doc ])
                  /\ Write(r, IF o # "200"
                              THEN << <<"response", o>>, <<"Error: policy creation failed.">> >>
                              ELSE << >>)
                  /\ arn' = [arn EXCEPT ![r] = PolicyArn(args[r].policy)]
             ELSE /\ policies' = policies
                  /\ Write(r, <<ExcMsg("create_policy", o)>>)
                  /\ arn' = arn
          /\ Goto(r, "create_user")
    /\ UNCHANGED <<buckets, protected, users, attached, keys, args, iam, stdout, history>>

(* variant: only EntityAlreadyExists is caught *)
CreateUserHandler_Reraise(o) ==
    IF o = "ok" \/ o = "EntityAlreadyExists" THEN [next |-> "attach", msgs |-> << >>]
    ELSE [next |-> "raised", msgs |-> << >>]

(* variant: EntityAlreadyExists is reported like any other ClientError *)
CreateUserHandler_ReportExisting(o) ==
    IF o = "ok" THEN [next |-> "attach", msgs |-> << >>]
    ELSE IF IsClientError(o) THEN [next |-> "attach", msgs |-> <<ExcMsg("create_user", o)>>]
    ELSE [next |-> "raised", msgs |-> << >>]

(* what main does with the outcome of create_user *)
CreateUserHandler(o) ==
    IF o = "ok" THEN [next |-> "attach", msgs |-> << >>]
    ELSE IF IsClientError(o)
         THEN IF o = "EntityAlreadyExists" THEN [next |-> "attach", msgs |-> << >>]
              ELSE [next |-> "attach", msgs |-> <<ExcMsg("create_user", o)>>]
         ELSE [next |-> "raised", msgs |-> << >>]

create_user(r) ==
    /\ pc[r] = "create_user"
    /\ \E o \in {"ok", "EntityAlreadyExists", "AccessDenied", "ConnectionError"} :
          /\ o = "ok" => args[r].user \notin users
          /\ o = "EntityAlreadyExists" => args[r].user \in users
          /\ IF o \in {"ok", "EntityAlreadyExists"} THEN NoFault ELSE Fault
          /\ Called(r, "create_user",
                    [UserName |-> args[r].user,
                     Tags |-> << [Key |-> "created-by", Value |-> "govready:es-credentials"] >>],
                    o, << >>)
          /\ users' = IF o = "ok" THEN users \cup {args[r].user} ELSE users
          /\ Goto(r, CreateUserHandler(o).next)
          /\ Write(r, CreateUserHandler(o).msgs)
    /\ UNCHANGED <<buckets, protected, policies, attached, keys, args, arn, iam, stdout, history>>

(* except ClientError around attach_user_policy and create_access_key *)
ClientErrorHandler(op, o, next) ==
    IF o = "ok" THEN [next |-> next, msgs |-> << >>]
    ELSE IF IsClientError(o) THEN [next |-> next, msgs |-> <<ExcMsg(op, o)>>]
    ELSE [next |-> "raised", msgs |-> << >>]

(* variant: the check of arn is missing *)
MustAttach_Always(a) == TRUE

(* if arn is None: report, else: attach_user_policy *)
MustAttach(a) == a # None

attach(r) ==
    /\ pc[r] = "attach"
    /\ IF ~MustAttach(arn[r])
       THEN /\ Write(r, << <<"ERROR: Can't attach policy: no policy exists.">> >>)
            /\ Goto(r, "create_access_key")
            /\ UNCHANGED <<attached, calls, faults>>
       ELSE \E o \in {"ok", "NoSuchEntity", "AccessDenied", "ConnectionError"} :
            /\ o = "ok" => args[r].user \in users
            /\ o = "NoSuchEntity" => args[r].user \notin users
            /\ IF o \in {"ok", "NoSuchEntity"} THEN NoFault ELSE Fault
            /\ Called(r, "attach_user_policy",
                      [UserName |-> args[r].user, PolicyArn |-> arn[r]], o, << >>)
            /\ attached' = IF o = "ok" THEN attached \cup {<<args[r].user, arn[r]>>}
                           ELSE attached
            /\ Goto(r, ClientErrorHandler("attach_user_policy", o, "create_access_key").next)
            /\ Write(r, ClientErrorHandler("attach_user_policy", o, "create_access_key").msgs)
    /\ UNCHANGED <<buckets, protected, policies, users, keys, args, arn, iam, stdout, history>>

(* the provider mints a key id it has not issued before *)
NewAccessKeyId == Len(keys) + 1

create_access_key(r) ==
    /\ pc[r] = "create_access_key"
    /\ \E o \in {"ok", "NoSuchEntity", "AccessDenied", "ConnectionError"} :
          /\ o = "ok" => args[r].user \in users
          /\ o = "NoSuchEntity" => args[r].user \notin users
          /\ IF o \in {"ok", "NoSuchEntity"} THEN NoFault ELSE Fault
          /\ Called(r, "create_access_key", [UserName |-> args[r].user], o, << >>)
          /\ IF o = "ok"
             THEN /\ keys' = Append(keys, [UserName |-> args[r].user,
                                           AccessKeyId |-> NewAccessKeyId])
                  /\ stdout' = [stdout EXCEPT ![r] = @ \o
                        << <<"# for Windows, use 'set' instead of 'export'">>,
                           <<"export AWS_ACCESS_KEY_ID=", NewAccessKeyId>>,
                           <<"export AWS_SECRET_ACCESS_KEY=", NewAccessKeyId>> >>]
             ELSE UNCHANGED <<keys, stdout>>
          /\ Goto(r, ClientErrorHandler("create_access_key", o, "done").next)
          /\ Write(r, ClientErrorHandler("create_access_key", o, "done").msgs)
    /\ UNCHANGED <<buckets, protected, policies, users, attached, args, arn, iam, history>>

main(r) ==
    \/ parse_args(r)
    \/ get_caller_identity(r)
    \/ head_bucket(r)
    \/ create_bucket(r)
    \/ put_public_access_block(r)
    \/ list_policies(r)
    \/ create_policy(r)
    \/ create_user(r)
    \/ attach(r)
    \/ create_access_key(r)

(* the script is invoked NumRuns times, each invocation after the previous *)
(* one has terminated                                                      *)
Next == main(1)

Spec == Init /\ [][Next]_vars

(* the script is invoked twice, the second time at any moment, and the     *)
(* provider answers every acceptable request                               *)
InitConcurrent == InitWith(Cardinality(Runs), MaxFaults)

NextConcurrent == \E r \in Runs : main(r)

SpecConcurrent == InitConcurrent /\ [][NextConcurrent]_vars

(* one process that calls confirm_or_create_policy again after it returned *)
confirm_or_create_policy_again(r) ==
    /\ pc[r] = "create_user"
    /\ recalls < MaxCalls
    /\ recalls' = recalls + 1
    /\ \E b \in BucketNames, p \in PolicyNames, a \in AccessArgs :
          args' = [args EXCEPT ![r] = [bucket |-> b, policy |-> p, access |-> a,
                                       user |-> args[r].user]]
    /\ arn' = [arn EXCEPT ![r] = None]
    /\ Goto(r, "list_policies")
    /\ UNCHANGED <<provider, faults, iam, calls, stderr, stdout,
                   quota, launched, same, clean>>

(* one invocation; the provider answers every acceptable request *)
InitLib == InitWith(1, MaxFaults)

NextLib == main(1) \/ confirm_or_create_policy_again(1)

SpecLib == InitLib /\ [][NextLib]_vars


(* ------------------------------------------------------------ properties *)

CallsOf(r, op) == SelectSeq(calls[r], LAMBDA c : c.op = op)
Wrote(r, msg)  == \E i \in 1..Len(stderr[r]) : stderr[r][i] = msg
LastCall(r)    == calls[r][Len(calls[r])]

(* a JSON text: strings in double quotes, a double quote inside escaped *)
JsonString(s) == <<DQ>> \o EscapeWith(s, DQ) \o <<DQ>>
JsonList(l)   == <<"[">> \o Join([i \in 1..Len(l) |-> JsonString(l[i])], <<", ">>) \o <<"]">>
JsonItem(k, v) == JsonString(<<k>>) \o <<": ">> \o v

(* the policy document the specification describes, as JSON text *)
JsonPolicy(actions, resources) ==
    <<"{">> \o JsonItem("Version", JsonString(<<"2012-10-17">>)) \o <<", ">>
    \o JsonItem("Statement",
         <<"[", "{">> \o Join(<< JsonItem("Sid", JsonString(<<"VisualEditor0">>)),
                             JsonItem("Effect", JsonString(<<"Allow">>)),
                             JsonItem("Action", JsonString(<<"s3:ListAllMyBuckets">>)),
                             JsonItem("Resource", JsonString(<<"*">>)) >>, <<", ">>)
         \o <<"}", ", ", "{">>
         \o Join(<< JsonItem("Sid", JsonString(<<"VisualEditor1">>)),
                    JsonItem("Effect", JsonString(<<"Allow">>)),
                    JsonItem("Action", JsonList(actions)),
                    JsonItem("Resource", JsonList(resources)) >>, <<", ">>)
         \o <<"}", "]">>)
    \o <<"}">>

ActionsOfMode(m) ==
    IF m = <<"r">>
    THEN << <<"s3:ListBucket">>, <<"s3:GetObject">>, <<"s3:GetObjectAcl">>,
            <<"s3:GetObjectTagging">> >>
    ELSE IF m = <<"w">>
    THEN << <<"s3:ListBucket">>, <<"s3:PutObject">>, <<"s3:PutObjectAcl">>,
            <<"s3:PutObjectTagging">> >>
    ELSE << <<"s3:ListBucket">>, <<"s3:GetObject">>, <<"s3:GetObjectAcl">>,
            <<"s3:GetObjectTagging">>, <<"s3:PutObject">>, <<"s3:PutObjectAcl">>,
            <<"s3:PutObjectTagging">> >>

BucketArn(b)  == <<"arn:aws:s3:::">> \o b
ObjectsArn(b) == <<"arn:aws:s3:::">> \o b \o <<"/*">>

(* the documents for mode m and bucket b: the two resources in either order *)
DocumentsFor(m, b) ==
    { JsonPolicy(ActionsOfMode(m), <<ObjectsArn(b), BucketArn(b)>>),
      JsonPolicy(ActionsOfMode(m), <<BucketArn(b), ObjectsArn(b)>>) }

(* C1: every document passed to create_policy is, for the run's access     *)
(* mode m in {r, w, rw} and bucket b, the JSON policy whose first          *)
(* statement is the fixed s3:ListAllMyBuckets on "*" and whose second      *)
(* statement has exactly the actions of m and exactly the two resources    *)
(* arn:aws:s3:::b and arn:aws:s3:::b/*.                                    *)
C1_DocumentMatchesMode ==
    \A r \in Runs : \A i \in 1..Len(calls[r]) :
        calls[r][i].op = "create_policy" =>
            /\ args[r].access \in { <<"r">>, <<"w">>, <<"rw">> }
            /\ calls[r][i].req.PolicyDocument \in DocumentsFor(args[r].access, args[r].bucket)

C1_Witness ==
    \E r \in Runs :
        /\ args[r].access = <<"rw">>
        /\ args[r].bucket = <<"acme-ev-02">>
        /\ \E i \in 1..Len(calls[r]) :
              calls[r][i].op = "create_policy" /\ calls[r][i].res = "200"

ListedAbsent(r) ==
    \E i \in 1..Len(calls[r]) :
        /\ calls[r][i].op = "list_policies"
        /\ calls[r][i].res = "ok"
        /\ ~Has(calls[r][i].data, args[r].policy)

(* C2: when list_policies answered, no listed policy has the requested     *)
(* name and the access mode is none of r, w, rw (or is absent), the        *)
(* '--access' error is written, create_policy is never called and the ARN  *)
(* is None.                                                                *)
C2_BadAccessNoPolicy ==
    \A r \in Runs :
        (ListedAbsent(r) /\ args[r].access \notin { <<"r">>, <<"w">>, <<"rw">> }) =>
            /\ Wrote(r, <<"Error: '--access' must be one of r, w, or rw.">>)
            /\ CallsOf(r, "create_policy") = << >>
            /\ arn[r] = None

C2_Witness ==
    \E r \in Runs :
        /\ ListedAbsent(r)
        /\ args[r].access = None
        /\ pc[r] = "done"

(* C3: a run whose head_bucket succeeded makes no create_bucket call and   *)
(* no put_public_access_block call.                                        *)
C3_ExistingBucketOnlyRead ==
    \A r \in Runs :
        (\E i \in 1..Len(calls[r]) : calls[r][i].op = "head_bucket" /\ calls[r][i].res = "ok") =>
            /\ CallsOf(r, "create_bucket") = << >>
            /\ CallsOf(r, "put_public_access_block") = << >>

C3_Witness ==
    \E r \in Runs :
        /\ pc[r] = "done"
        /\ \E i \in 1..Len(calls[r]) : calls[r][i].op = "head_bucket" /\ calls[r][i].res = "ok"


HeadOk(r) ==
    \E i \in 1..Len(calls[r]) : calls[r][i].op = "head_bucket" /\ calls[r][i].res = "ok"

ListOk(r) ==
    \E i \in 1..Len(calls[r]) : calls[r][i].op = "list_policies" /\ calls[r][i].res = "ok"

CreatedPolicy(r) ==
    \E i \in 1..Len(calls[r]) : calls[r][i].op = "create_policy" /\ calls[r][i].res \in OkStatus

(* confirm_or_create_policy has returned in run r *)
PolicyReturned(r) == CallsOf(r, "list_policies") # << >> /\ pc[r] # "create_policy"

(* C4 as stated: a run whose list_policies answered while a policy of the  *)
(* requested name exists (one it did not create itself) returns that       *)
(* policy's ARN and never calls create_policy, whatever the access mode.   *)
C4_ExistingPolicyReused ==
    \A r \in Runs :
        (ListOk(r) /\ PolicyExists(args[r].policy) /\ ~CreatedPolicy(r)) =>
            /\ arn[r] = PolicyArn(args[r].policy)
            /\ CallsOf(r, "create_policy") = << >>
            /\ pc[r] # "create_policy"

KeysOf(u) == SelectSeq(keys, LAMBDA k : k.UserName = u)
PoliciesNamed(p) == SelectSeq(policies, LAMBDA x : x.PolicyName = p)

C6_EveryFailureCaught ==
    \A r \in Runs : pc[r] # "raised"

OnlyClientErrorCaught == { "head_bucket", "create_user", "attach_user_policy", "create_access_key" }
AnyExceptionCaught    == { "create_bucket", "put_public_access_block", "list_policies", "create_policy" }

Caught(c) ==
    \/ c.op \in AnyExceptionCaught /\ IsException(c.res)
    \/ c.op \in OnlyClientErrorCaught /\ IsClientError(c.res)

Silent(c) ==
    \/ c.op = "head_bucket" /\ c.res = "404"
    \/ c.op = "create_user" /\ c.res = "EntityAlreadyExists"

(* C6 amended: a ClientError of head_bucket, create_user,                  *)
(* attach_user_policy or create_access_key and any exception of            *)
(* create_bucket, put_public_access_block, list_policies or create_policy  *)
(* is caught, written to stderr (except the 404 of head_bucket and the     *)
(* EntityAlreadyExists of create_user) and main goes on: a run that has    *)
(* ended with an exception ended at a failure of get_caller_identity or at *)
(* another kind of exception of one of the first four calls, and a run     *)
(* that is done has called create_access_key.                              *)
C6_CaughtFailures ==
    \A r \in Runs :
        /\ \A i \in 1..Len(calls[r]) :
              Caught(calls[r][i]) =>
                  /\ i = Len(calls[r]) => pc[r] # "raised"
                  /\ ~Silent(calls[r][i]) => Wrote(r, ExcMsg(calls[r][i].op, calls[r][i].res))
        /\ pc[r] = "raised" =>
              \/ LastCall(r).op = "get_caller_identity" /\ IsException(LastCall(r).res)
              \/ LastCall(r).op \in OnlyClientErrorCaught /\ LastCall(r).res \in OtherExceptions
        /\ pc[r] = "done" => LastCall(r).op = "create_access_key"

C6_Witness ==
    \E r \in Runs :
        /\ pc[r] = "done"
        /\ \E i \in 1..Len(calls[r]) :
              calls[r][i].op = "create_bucket" /\ calls[r][i].res = "ConnectionError"

(* C7: when create_user fails with EntityAlreadyExists, nothing is written *)
(* for it, no user is added, and main is at the attach step or has taken   *)
(* it: it called attach_user_policy next if the ARN is not None and        *)
(* reported that no policy exists if it is None.                           *)
C7_ExistingUserProceeds ==
    \A r \in Runs : \A i \in 1..Len(calls[r]) :
        (calls[r][i].op = "create_user" /\ calls[r][i].res = "EntityAlreadyExists") =>
            /\ ~Wrote(r, ExcMsg("create_user", "EntityAlreadyExists"))
            /\ calls[r][i].req.UserName \in users
            /\ \/ pc[r] = "attach" /\ i = Len(calls[r])
               \/ /\ arn[r] # None
                  /\ i < Len(calls[r])
                  /\ calls[r][i + 1].op = "attach_user_policy"
               \/ /\ arn[r] = None
                  /\ Wrote(r, <<"ERROR: Can't attach policy: no policy exists.">>)
                  /\ pc[r] \in {"create_access_key", "done", "raised"}

C7_Witness ==
    \E r \in Runs :
        /\ pc[r] = "done"
        /\ \E i \in 1..Len(calls[r]) :
              /\ calls[r][i].op = "create_user"
              /\ calls[r][i].res = "EntityAlreadyExists"
              /\ calls[r][i + 1].op = "attach_user_policy"
              /\ calls[r][i + 1].res = "ok"

NeverAttachesNone ==
    \A r \in Runs : \A i \in 1..Len(calls[r]) :
        calls[r][i].op = "attach_user_policy" => calls[r][i].req.PolicyArn # None

AttachOutcome(r) ==
    IF arn[r] = None
    THEN /\ Wrote(r, <<"ERROR: Can't attach policy: no policy exists.">>)
         /\ CallsOf(r, "attach_user_policy") = << >>
    ELSE /\ Len(CallsOf(r, "attach_user_policy")) = 1
         /\ CallsOf(r, "attach_user_policy")[1].req =
               [UserName |-> args[r].user, PolicyArn |-> arn[r]]
         /\ ~Wrote(r, <<"ERROR: Can't attach policy: no policy exists.">>)

(* C8 as stated: attach_user_policy is never called with a None ARN, and   *)
(* every run that has ended after confirm_or_create_policy returned has    *)
(* reported and skipped the attach call if it returned None, and has       *)
(* called attach_user_policy exactly once, with the ARN and args.user, if  *)
(* it returned an ARN.                                                     *)
C8_AttachInEveryRun ==
    /\ NeverAttachesNone
    /\ \A r \in Runs : (Terminated(r) /\ PolicyReturned(r)) => AttachOutcome(r)

(* main is past its attach step *)
PastAttach(r) ==
    \/ pc[r] \in {"create_access_key", "done"}
    \/ pc[r] = "raised" /\ LastCall(r).op \in {"attach_user_policy", "create_access_key"}

(* C8 amended: attach_user_policy is never called with a None ARN, and     *)
(* every run that has reached and taken its attach step (create_user       *)
(* raised nothing but a ClientError) has reported and skipped the attach   *)
(* call if confirm_or_create_policy returned None, and has called          *)
(* attach_user_policy exactly once, with the ARN and args.user, if it      *)
(* returned an ARN.                                                        *)
C8_AttachWhenReached ==
    /\ NeverAttachesNone
    /\ \A r \in Runs : PastAttach(r) => AttachOutcome(r)

C8_Witness ==
    \E r \in Runs :
        /\ pc[r] = "done"
        /\ arn[r] = None
        /\ \E i \in 1..Len(calls[r]) :
              calls[r][i].op = "create_policy" /\ calls[r][i].res = "AccessDenied"

(* C9: a run calls create_policy exactly on what its own list_policies     *)
(* answered, whatever the provider holds by then: every create_policy call *)
(* follows a listing of the same run that lacked the name.                 *)
C9_CreateFollowsOwnListing ==
    \A r \in Runs : \A i \in 1..Len(calls[r]) :
        calls[r][i].op = "create_policy" =>
            /\ i > 1
            /\ calls[r][i - 1].op = "list_policies"
            /\ calls[r][i - 1].res = "ok"
            /\ ~Has(calls[r][i - 1].data, calls[r][i].req.PolicyName)

(* two overlapping runs both listed no policy at all and both called       *)
(* create_policy for the same name; the provider took one and rejected the *)
(* other                                                                   *)
C9_Witness ==
    \E r, q \in Runs :
        /\ r # q
        /\ args[r].policy = args[q].policy
        /\ \E i \in 1..Len(calls[r]) :
              /\ calls[r][i].op = "create_policy" /\ calls[r][i].res = "200"
              /\ calls[r][i - 1].data = << >>
        /\ \E j \in 1..Len(calls[q]) :
              /\ calls[q][j].op = "create_policy" /\ calls[q][j].res = "EntityAlreadyExists"
              /\ calls[q][j - 1].data = << >>

ResourcesFor(b) == { <<ObjectsArn(b), BucketArn(b)>>, <<BucketArn(b), ObjectsArn(b)>> }

(* C10: in a process that calls confirm_or_create_policy any number of     *)
(* times, the document about to be sent to create_policy is the document   *)
(* for the current access mode and bucket alone, and the shared templates  *)
(* differ from their initial value only in the Resource entry of the       *)
(* second statement, which is empty or the two ARNs of one bucket.         *)
C10_TemplateReuse ==
    \A r \in Runs :
        /\ pc[r] = "create_policy" =>
              PolicyDocument(iam[r][args[r].access])
                  \in DocumentsFor(args[r].access, args[r].bucket)
        /\ \A m \in DOMAIN iam[r] :
              /\ [iam[r][m] EXCEPT !.Statement[2].Resource = << >>] = iam_policies[m]
              /\ \/ iam[r][m].Statement[2].Resource = << >>
                 \/ \E b \in BucketNames : iam[r][m].Statement[2].Resource \in ResourcesFor(b)

(* the template of the current mode was filled for another bucket by an    *)
(* earlier call, and another mode's template still holds another bucket    *)
C10_Witness ==
    \E r \in Runs :
        /\ pc[r] = "create_policy"
        /\ recalls = MaxCalls
        /\ \E i \in 1..Len(calls[r]) : \E b \in BucketNames \ {args[r].bucket} :
              /\ calls[r][i].op = "create_policy"
              /\ calls[r][i].req.PolicyDocument \in DocumentsFor(args[r].access, b)

====
